---- MODULE Spec2Model ----
(***************************************************************************)
(* Personal Finance API (src/main.py): the period resolver, the seeding of *)
(* the record store, the summary aggregation and the derived               *)
(* notifications, as a state machine over the record store.                *)
(*                                                                         *)
(* Modelling decisions:                                                    *)
(*  - a document is a TLA+ record; a field the document does not carry is  *)
(*    absent from the record's DOMAIN, and Get models dict.get;            *)
(*  - a collection is the sequence of its documents in insertion order;    *)
(*  - money is an integer number of currency units.  The code computes in  *)
(*    binary floating point; for integer amounts below 2^52 its sums are   *)
(*    exact and its threshold tests (spent >= 0.9 * budget, pct >= 0.75,   *)
(*    pct >= 0.5, pct >= 1.0) agree with the exact integer tests used here;*)
(*  - fields no modelled code reads (icon, interest_rate, description,     *)
(*    account_id, recurring, message text) are left out of the documents;  *)
(*  - the store is an external database that outlives the process: Init    *)
(*    draws its content from InitStores (empty, or documents written       *)
(*    earlier by this program or by another writer of the same database);  *)
(*  - the store is available (db is not None).                             *)
(***************************************************************************)
EXTENDS Integers, Sequences, FiniteSets, TLC

VARIABLES
    db,        \* the record store: collection name -> sequence of documents
    tick,      \* index into Clock: the wall clock read by datetime.now
    adds,      \* number of add_transaction requests served so far
    lastReq,   \* the request served last (operation and arguments)
    resp,      \* the response to lastReq
    th         \* the request threads of the concurrent specification

vars == <<db, tick, adds, lastReq, resp, th>>

None == "<None>"

\* dict.get(key, default)
Get(d, key, default) == IF key \in DOMAIN d THEN d[key] ELSE default

Abs(x) == IF x < 0 THEN -x ELSE x

Max(a, b) == IF a >= b THEN a ELSE b

RECURSIVE SumSeq(_)
SumSeq(s) == IF s = <<>> THEN 0 ELSE Head(s) + SumSeq(Tail(s))

(***************************************************************************)
(* datetime: the fields of a datetime, the proleptic Gregorian ordinal of  *)
(* its date (datetime.toordinal / fromordinal), weekday and timedelta.     *)
(***************************************************************************)
Dt(y, mo, d, h, mi, s, us) ==
    [year |-> y, month |-> mo, day |-> d,
     hour |-> h, minute |-> mi, second |-> s, microsecond |-> us]

IsLeap(y) == (y % 4 = 0) /\ ((y % 100 # 0) \/ (y % 400 = 0))

DaysInMonth(y, mo) ==
    IF mo = 2 THEN (IF IsLeap(y) THEN 29 ELSE 28)
    ELSE IF mo \in {4, 6, 9, 11} THEN 30 ELSE 31

DaysBeforeYear(y) ==
    LET y1 == y - 1 IN y1 * 365 + (y1 \div 4) - (y1 \div 100) + (y1 \div 400)

RECURSIVE DaysBeforeMonth(_, _)
DaysBeforeMonth(y, mo) ==
    IF mo = 1 THEN 0 ELSE DaysBeforeMonth(y, mo - 1) + DaysInMonth(y, mo - 1)

ToOrdinal(t) == DaysBeforeYear(t.year) + DaysBeforeMonth(t.year, t.month) + t.day

\* The (year, month, day) of ordinal n, by the 400/100/4/1-year cycles.
FromOrdinal(n) ==
    LET n0   == n - 1
        n400 == n0 \div 146097
        r400 == n0 % 146097
        n100 == r400 \div 36524
        r100 == r400 % 36524
        n4   == r100 \div 1461
        r4   == r100 % 1461
        n1   == r4 \div 365
        r1   == r4 % 365
        y    == n400 * 400 + 1 + n100 * 100 + n4 * 4 + n1
    IN  IF n1 = 4 \/ n100 = 4
        THEN [year |-> y - 1, month |-> 12, day |-> 31]
        ELSE LET mo == CHOOSE m \in 1..12 :
                           /\ DaysBeforeMonth(y, m) <= r1
                           /\ r1 < DaysBeforeMonth(y, m) + DaysInMonth(y, m)
             IN  [year |-> y, month |-> mo, day |-> r1 - DaysBeforeMonth(y, mo) + 1]

\* datetime.weekday(): Monday is 0, Sunday is 6.
Weekday(t) == (ToOrdinal(t) + 6) % 7

\* t - timedelta(days = k): the date moves, the time of day stays.
MinusDays(t, k) ==
    LET d == FromOrdinal(ToOrdinal(t) - k)
    IN  [t EXCEPT !.year = d.year, !.month = d.month, !.day = d.day]

DtKey(t) == <<t.year, t.month, t.day, t.hour, t.minute, t.second, t.microsecond>>

RECURSIVE LexLe(_, _)
LexLe(a, b) ==
    IF a = <<>> THEN TRUE
    ELSE IF Head(a) # Head(b) THEN Head(a) < Head(b)
    ELSE LexLe(Tail(a), Tail(b))

\* a <= b on datetimes
DtLe(a, b) == LexLe(DtKey(a), DtKey(b))

Midnight(t) == [t EXCEPT !.hour = 0, !.minute = 0, !.second = 0, !.microsecond = 0]

\* start_of_period with the week starting on Sunday.
start_of_period_sunday(now, timeframe) ==
    IF timeframe = "daily" THEN Midnight(now)
    ELSE IF timeframe = "weekly" THEN Midnight(MinusDays(now, (Weekday(now) + 1) % 7))
    ELSE IF timeframe = "monthly" THEN Midnight([now EXCEPT !.day = 1])
    ELSE IF timeframe = "yearly" THEN Midnight([now EXCEPT !.month = 1, !.day = 1])
    ELSE now

start_of_period(now, timeframe) ==
    IF timeframe = "daily" THEN Midnight(now)
    ELSE IF timeframe = "weekly" THEN Midnight(MinusDays(now, Weekday(now)))
    ELSE IF timeframe = "monthly" THEN Midnight([now EXCEPT !.day = 1])
    ELSE IF timeframe = "yearly" THEN Midnight([now EXCEPT !.month = 1, !.day = 1])
    ELSE now

Timeframes == {"daily", "weekly", "monthly", "yearly"}

(***************************************************************************)
(* The record store.  count_documents is the driver's count; the helpers   *)
(* create_document and get_documents live in database.py and are modelled  *)
(* from the store interface: insert appends the document, query returns    *)
(* the documents that match the filter, in order.                          *)
(***************************************************************************)
COLL_TRANSACTION == "transaction"
COLL_ACCOUNT == "account"
COLL_GOAL == "goal"
COLL_DEBT == "debt"
COLL_BUDGET == "budgetcategory"
COLL_NOTIFICATION == "notification"

Colls ==
    {COLL_TRANSACTION, COLL_ACCOUNT, COLL_GOAL, COLL_DEBT, COLL_BUDGET, COLL_NOTIFICATION}

count_documents(d, coll) == Len(d[coll])

create_document(d, coll, doc) == [d EXCEPT ![coll] = Append(@, doc)]

\* {"date": {"$gte": start}}: a document without a date does not match.
DateGte(doc, start) == "date" \in DOMAIN doc /\ DtLe(start, doc.date)

\* The filter dicts of the queries: none, {"date": {"$gte": start}} and
\* {"date": {"$gte": start}, "kind": kind}.
All == [all |-> TRUE]

Since(start) == [date_gte |-> start]

SinceOfKind(start, kind) == [date_gte |-> start, kind |-> kind]

\* The document matches every condition of the filter; a condition on a
\* field the document lacks fails.
Matches(doc, filter) ==
    /\ "date_gte" \in DOMAIN filter => DateGte(doc, filter.date_gte)
    /\ "kind" \in DOMAIN filter => ("kind" \in DOMAIN doc /\ doc.kind = filter.kind)

get_documents(d, coll, filter) == SelectSeq(d[coll], LAMBDA doc : Matches(doc, filter))

\* The image of a sequence under an operator.
Map(s, F(_)) == [i \in DOMAIN s |-> F(s[i])]

\* Body of the value of an expression, the expression evaluated once: the
\* assignment of a call's result to a local variable.
With(value, Body(_)) == CHOOSE result \in {Body(v) : v \in {value}} : TRUE

RECURSIVE create_documents(_, _, _)
\* One create_document per document of docs, in order.
create_documents(d, coll, docs) ==
    IF docs = <<>> THEN d
    ELSE create_documents(create_document(d, coll, Head(docs)), coll, Tail(docs))

(***************************************************************************)
(* The demo documents of ensure_seed_data and list_budgets.                *)
(***************************************************************************)
SeedAccounts ==
    << [name |-> "Checking", type |-> "checking", starting_balance |-> 2500],
       [name |-> "Savings", type |-> "savings", starting_balance |-> 8000],
       [name |-> "Credit Card", type |-> "credit", starting_balance |-> -1200] >>

SeedGoals ==
    << [name |-> "Emergency Fund", target_amount |-> 10000, current_amount |-> 4000],
       [name |-> "Vacation", target_amount |-> 3000, current_amount |-> 1200],
       [name |-> "New Car", target_amount |-> 20000, current_amount |-> 3500] >>

SeedDebts ==
    << [name |-> "Credit Card", balance |-> 1200, minimum_payment |-> 50],
       [name |-> "Student Loan", balance |-> 8500, minimum_payment |-> 120],
       [name |-> "Car Loan", balance |-> 5400, minimum_payment |-> 180] >>

SeedTx(amount, category, kind, now, days) ==
    [amount |-> amount, category |-> category, kind |-> kind, date |-> MinusDays(now, days)]

SeedTransactions(now) ==
    << SeedTx(3200, "Salary", "income", now, 10),
       SeedTx(200, "Freelance", "income", now, 4),
       SeedTx(65, "Food", "expense", now, 3),
       SeedTx(1200, "Rent", "expense", now, 15),
       SeedTx(35, "Transport", "expense", now, 2),
       SeedTx(300, "Emergency Fund", "savings", now, 1),
       SeedTx(150, "Credit Card", "debt", now, 6) >>

SeedBudgets ==
    << [name |-> "Food", monthly_budget |-> 400],
       [name |-> "Rent", monthly_budget |-> 1200],
       [name |-> "Transport", monthly_budget |-> 150],
       [name |-> "Shopping", monthly_budget |-> 250],
       [name |-> "Entertainment", monthly_budget |-> 150] >>

\* SeedIfEmpty without its emptiness test.
SeedAlways(d, coll, docs) == create_documents(d, coll, docs)

\* One block of ensure_seed_data: the demo documents go in when the
\* collection counts zero documents.
SeedIfEmpty(d, coll, docs) ==
    IF count_documents(d, coll) = 0 THEN create_documents(d, coll, docs) ELSE d

ensure_seed_data(d, now) ==
    LET d1 == SeedIfEmpty(d, COLL_ACCOUNT, SeedAccounts)
        d2 == SeedIfEmpty(d1, COLL_GOAL, SeedGoals)
        d3 == SeedIfEmpty(d2, COLL_DEBT, SeedDebts)
    IN  SeedIfEmpty(d3, COLL_TRANSACTION, SeedTransactions(now))

(***************************************************************************)
(* The endpoints, each a function of the store and the clock to the store  *)
(* it leaves behind and the response: [db |-> ..., out |-> ...].           *)
(***************************************************************************)
read_root(d, now) ==
    [db |-> ensure_seed_data(d, now), out |-> [message |-> "Personal Finance Backend Running"]]

list_accounts(d, now) ==
    With(ensure_seed_data(d, now), LAMBDA d1 :
        [db |-> d1, out |-> get_documents(d1, COLL_ACCOUNT, All)])

list_goals(d, now) ==
    With(ensure_seed_data(d, now), LAMBDA d1 :
        [db |-> d1, out |-> get_documents(d1, COLL_GOAL, All)])

list_debts(d, now) ==
    With(ensure_seed_data(d, now), LAMBDA d1 :
        [db |-> d1, out |-> get_documents(d1, COLL_DEBT, All)])

list_budgets(d, now) ==
    With(ensure_seed_data(d, now), LAMBDA d1 :
    With(SeedIfEmpty(d1, COLL_BUDGET, SeedBudgets), LAMBDA d2 :
        [db |-> d2, out |-> get_documents(d2, COLL_BUDGET, All)]))

\* timeframe is None or one of Timeframes (the query's regex).
list_transactions(d, now, timeframe) ==
    With(ensure_seed_data(d, now), LAMBDA d1 :
    With(start_of_period(now, timeframe), LAMBDA start :
        [db  |-> d1,
         out |-> IF timeframe # None
                 THEN get_documents(d1, COLL_TRANSACTION, Since(start))
                 ELSE get_documents(d1, COLL_TRANSACTION, All)]))

\* Payload with the amount stored as supplied.
PayloadSigned(t, now) ==
    [amount |-> t.amount, category |-> t.category, kind |-> t.kind,
     date |-> IF "date" \in DOMAIN t THEN t.date ELSE now]

\* The document add_transaction stores for the request body t (a body
\* whose date is None carries no date field).
Payload(t, now) ==
    [amount |-> Abs(t.amount), category |-> t.category, kind |-> t.kind,
     date |-> IF "date" \in DOMAIN t THEN t.date ELSE now]

add_transaction(d, now, t) ==
    With(ensure_seed_data(d, now), LAMBDA d1 :
    With(create_document(d1, COLL_TRANSACTION, Payload(t, now)), LAMBDA d2 :
        [db |-> d2, out |-> [inserted_id |-> Len(d2[COLL_TRANSACTION])]]))

Amount(t) == Get(t, "amount", 0)

Category(t) == Get(t, "category", "Other")

\* The test of the four sums: t.get("kind") == kind.
Counted(t, kind) == Get(t, "kind", None) = kind

OfKind(txs, kind) == SelectSeq(txs, LAMBDA t : Counted(t, kind))

KindSum(txs, kind) == SumSeq(Map(OfKind(txs, kind), Amount))

\* The category map of a list of transactions: category -> summed amount.
ByCategory(txs) ==
    [c \in {Category(txs[i]) : i \in DOMAIN txs} |->
        SumSeq(Map(SelectSeq(txs, LAMBDA t : Category(t) = c), Amount))]

UsageEntry(b, by_cat) ==
    [name   |-> Get(b, "name", None),
     spent  |-> Get(by_cat, Get(b, "name", None), 0),
     budget |-> Get(b, "monthly_budget", 0)]

\* BudgetUsage with the budgets that match no expense category left out.
BudgetUsageMatchedOnly(budgets, by_cat) ==
    Map(SelectSeq(budgets, LAMBDA b : Get(b, "name", None) \in DOMAIN by_cat),
        LAMBDA b : UsageEntry(b, by_cat))

BudgetUsage(budgets, by_cat) == Map(budgets, LAMBDA b : UsageEntry(b, by_cat))

CashTypes == {"checking", "savings", "cash"}

\* CashOnHand without its filter on the account type.
CashOnHandAllAccounts(accounts) ==
    SumSeq(Map(accounts, LAMBDA a : Get(a, "starting_balance", 0)))

CashOnHand(accounts) ==
    SumSeq(Map(SelectSeq(accounts, LAMBDA a : Get(a, "type", None) \in CashTypes),
               LAMBDA a : Get(a, "starting_balance", 0)))

TotalDebt(debts) == SumSeq(Map(debts, LAMBDA x : Get(x, "balance", 0)))

TotalGoals(goals) == SumSeq(Map(goals, LAMBDA g : Get(g, "current_amount", 0)))

\* The report summary returns, from what it read.
Report(timeframe, txs, budgets, month_expenses, goals, debts, accounts) ==
    LET income       == KindSum(txs, "income")
        expenses     == KindSum(txs, "expense")
        cash_on_hand == CashOnHand(accounts)
        total_debt   == TotalDebt(debts)
        total_goals  == TotalGoals(goals)
    IN  [timeframe |-> timeframe,
         metrics |-> [net_worth     |-> cash_on_hand + total_goals - total_debt,
                      cash_on_hand  |-> cash_on_hand,
                      total_debt    |-> total_debt,
                      cash_flow     |-> income - expenses,
                      income        |-> income,
                      expenses      |-> expenses,
                      savings       |-> KindSum(txs, "savings"),
                      debt_payments |-> KindSum(txs, "debt")],
         income_sources     |-> ByCategory(OfKind(txs, "income")),
         expense_categories |-> ByCategory(OfKind(txs, "expense")),
         budget_usage |->
             IF timeframe \in {"monthly", "weekly", "daily"}
             THEN BudgetUsage(budgets, ByCategory(month_expenses))
             ELSE <<>>,
         goals    |-> goals,
         debts    |-> debts,
         accounts |-> accounts]

summary(d, now, timeframe) ==
    With(ensure_seed_data(d, now), LAMBDA d1 :
    With(start_of_period(now, timeframe), LAMBDA start :
    With(get_documents(d1, COLL_TRANSACTION, Since(start)), LAMBDA txs :
    With(list_budgets(d1, now), LAMBDA lb :
    With(start_of_period(now, "monthly"), LAMBDA month_start :
    With(get_documents(lb.db, COLL_TRANSACTION, SinceOfKind(month_start, "expense")),
         LAMBDA month_expenses :
    With(list_goals(lb.db, now), LAMBDA lg :
    With(list_debts(lg.db, now), LAMBDA ld :
    With(list_accounts(ld.db, now), LAMBDA la :
        [db  |-> la.db,
         out |-> Report(timeframe, txs, lb.out, month_expenses, lg.out, ld.out, la.out)])))))))))

RECURSIVE Flatten(_)
Flatten(ss) == IF ss = <<>> THEN <<>> ELSE Head(ss) \o Flatten(Tail(ss))

\* {b["name"]: b for b in budget_usage}: a later entry replaces an earlier
\* one of the same name.
UsageByName(usage) ==
    [n \in {usage[i].name : i \in DOMAIN usage} |->
        usage[CHOOSE i \in DOMAIN usage :
                /\ usage[i].name = n
                /\ \A j \in DOMAIN usage : usage[j].name = n => j <= i]]

\* spent >= 0.9 * budget
NearBudget(spent, budget) == 10 * spent >= 9 * budget

\* The budget notifications of one budget record.
BudgetAlert(b, usage_by_name) ==
    LET name == Get(b, "name", None)
    IN  IF name \notin DOMAIN usage_by_name THEN <<>>
        ELSE LET info   == usage_by_name[name]
                 budget == Get(info, "budget", 0)
                 spent  == Get(info, "spent", 0)
             IN  IF budget > 0 /\ NearBudget(spent, budget)
                 THEN << [kind |-> "budget", name |-> name] >>
                 ELSE <<>>

BillReminder(x) ==
    IF Get(x, "minimum_payment", 0) > 0
    THEN << [kind |-> "bill", name |-> Get(x, "name", None),
             minimum_payment |-> x.minimum_payment] >>
    ELSE <<>>

GoalNote(g, milestone) ==
    [kind |-> "goal", name |-> Get(g, "name", None), milestone |-> milestone]

\* GoalMilestone with independent tests in place of the if / elif chain.
GoalMilestoneEvery(g) ==
    LET target  == Max(1, Get(g, "target_amount", 0))
        current == Get(g, "current_amount", 0)
    IN  (IF current >= target THEN << GoalNote(g, "reached") >> ELSE <<>>)
        \o (IF 4 * current >= 3 * target THEN << GoalNote(g, "75% funded") >> ELSE <<>>)
        \o (IF 2 * current >= target THEN << GoalNote(g, "halfway") >> ELSE <<>>)

\* The goal notifications of one goal: pct = current / max(1.0, target).
GoalMilestone(g) ==
    LET target  == Max(1, Get(g, "target_amount", 0))
        current == Get(g, "current_amount", 0)
    IN  IF current >= target THEN << GoalNote(g, "reached") >>
        ELSE IF 4 * current >= 3 * target THEN << GoalNote(g, "75% funded") >>
        ELSE IF 2 * current >= target THEN << GoalNote(g, "halfway") >>
        ELSE <<>>

get_notifications(d, now) ==
    With(ensure_seed_data(d, now), LAMBDA d1 :
    With(list_budgets(d1, now), LAMBDA lb :
    With(summary(lb.db, now, "monthly"), LAMBDA month_summary :
    With(UsageByName(month_summary.out.budget_usage), LAMBDA usage_by_name :
        LET notifs ==
                Flatten(Map(lb.out, LAMBDA b : BudgetAlert(b, usage_by_name)))
                \o Flatten(Map(month_summary.out.debts, BillReminder))
                \o Flatten(Map(month_summary.out.goals, GoalMilestone))
            stored == get_documents(month_summary.db, COLL_NOTIFICATION, All)
        IN  [db |-> month_summary.db, out |-> stored \o notifs]))))

(***************************************************************************)
(* The period resolver on its own: Init draws `now` from every instant of  *)
(* PeriodNows, Resolve applies start_of_period to it.                      *)
(***************************************************************************)
YearSpan == 2

PeriodYears == 2023..(2023 + YearSpan - 1)

TimesOfDay ==
    { <<0, 0, 0, 0>>, <<0, 0, 0, 1>>, <<10, 30, 15, 500000>>, <<23, 59, 59, 999999>> }

PeriodNows ==
    { Dt(y, mo, d, t[1], t[2], t[3], t[4]) :
        y \in PeriodYears, mo \in 1..12, d \in 1..31, t \in TimesOfDay }

ValidDate(t) == t.day <= DaysInMonth(t.year, t.month)

PeriodLabels == Timeframes \cup {"hourly"}

NoReq == [op |-> "none"]

NoResp == [status |-> "none"]

InitPeriod ==
    /\ db = [c \in Colls |-> <<>>]
    /\ tick = 0
    /\ adds = 0
    /\ th = <<>>
    /\ lastReq \in { [op |-> "clock", now |-> n] : n \in {x \in PeriodNows : ValidDate(x)} }
    /\ resp = NoResp

Resolve ==
    /\ lastReq.op = "clock"
    /\ \E tf \in PeriodLabels :
         /\ lastReq' = [op |-> "start_of_period", now |-> lastReq.now, timeframe |-> tf]
         /\ resp' = start_of_period(lastReq.now, tf)
    /\ UNCHANGED <<db, tick, adds, th>>

NextPeriod == Resolve

SpecPeriod == InitPeriod /\ [][NextPeriod]_vars

\* C8: start_of_period(now, timeframe) has zero time of day and is <= now for
\* the four timeframes; the weekly start is a Monday at most 6 days before
\* now's day, the monthly start is day 1 of now's month, the yearly start is
\* Jan 1 of now's year; any other label returns now unchanged.
PeriodStartContract ==
    lastReq.op = "start_of_period" =>
        LET now == lastReq.now
            tf  == lastReq.timeframe
            gap == ToOrdinal(now) - ToOrdinal(resp)
        IN  /\ tf \in Timeframes =>
                /\ resp.hour = 0 /\ resp.minute = 0
                /\ resp.second = 0 /\ resp.microsecond = 0
                /\ DtLe(resp, now)
            /\ tf = "daily" => gap = 0
            /\ tf = "weekly" => Weekday(resp) = 0 /\ gap \in 0..6
            /\ tf = "monthly" =>
                resp.day = 1 /\ resp.month = now.month /\ resp.year = now.year
            /\ tf = "yearly" =>
                resp.day = 1 /\ resp.month = 1 /\ resp.year = now.year
            /\ tf \notin Timeframes => resp = now

\* C8 witness: a weekly start that lies in the previous year.
PeriodStartWitness ==
    /\ lastReq.op = "start_of_period"
    /\ lastReq.timeframe = "weekly"
    /\ resp.year < lastReq.now.year
    /\ lastReq.now.microsecond # 0

(***************************************************************************)
(* Requests served one after another: every action is one whole handler.   *)
(***************************************************************************)
\* The instants the wall clock shows: a Tuesday morning, the midnight that
\* starts a Monday and a month, and a morning of the next year.
Clock ==
    << Dt(2024, 3, 5, 10, 30, 0, 0),
       Dt(2024, 4, 1, 0, 0, 0, 0),
       Dt(2025, 1, 1, 8, 0, 0, 0) >>

Now == Clock[tick]

EmptyStore == [c \in Colls |-> <<>>]

\* A database used before: the budgets and goals of the spec's scenarios,
\* accounts of every type, and documents that lack fields.
UsedStore ==
    [c \in Colls |->
        CASE c = COLL_ACCOUNT ->
                << [name |-> "Checking", type |-> "checking", starting_balance |-> 2500],
                   [name |-> "Brokerage", type |-> "investment", starting_balance |-> 9000],
                   [name |-> "Wallet", type |-> "cash", starting_balance |-> 60],
                   [name |-> "Legacy"] >>
          [] c = COLL_GOAL ->
                << [name |-> "House", target_amount |-> 10000, current_amount |-> 7600],
                   [name |-> "Bike", target_amount |-> 100, current_amount |-> 100],
                   [name |-> "Trip", target_amount |-> 200, current_amount |-> 100],
                   [name |-> "Jar", target_amount |-> 0, current_amount |-> 3],
                   [name |-> "Boat", target_amount |-> 1000, current_amount |-> 499] >>
          [] c = COLL_DEBT ->
                << [name |-> "Card", balance |-> 1200, minimum_payment |-> 50],
                   [name |-> "Friend", balance |-> 300, minimum_payment |-> 0] >>
          [] c = COLL_BUDGET ->
                << [name |-> "Food", monthly_budget |-> 400],
                   [name |-> "Rent", monthly_budget |-> 1200],
                   [name |-> "Transport", monthly_budget |-> 150] >>
          [] c = COLL_TRANSACTION ->
                << [amount |-> 380, category |-> "Food", kind |-> "expense",
                    date |-> Dt(2024, 3, 2, 9, 0, 0, 0)],
                   [amount |-> 100, category |-> "Transport", kind |-> "expense",
                    date |-> Dt(2024, 3, 4, 18, 0, 0, 0)],
                   [amount |-> 25, category |-> "Food",
                    date |-> Dt(2024, 3, 5, 0, 0, 0, 0)] >>
          [] OTHER ->
                << [kind |-> "goal", message |-> "Keep going",
                    date |-> Dt(2024, 3, 1, 12, 0, 0, 0)] >> ]

\* A database in which another writer left two budgets of the same name.
SharedStore ==
    [EmptyStore EXCEPT
        ![COLL_BUDGET] = << [name |-> "Food", monthly_budget |-> 400],
                            [name |-> "Food", monthly_budget |-> 1000] >>,
        ![COLL_TRANSACTION] = << [amount |-> 380, category |-> "Food", kind |-> "expense",
                                  date |-> Dt(2024, 3, 2, 9, 0, 0, 0)] >>]

InitStores == {EmptyStore, UsedStore, SharedStore}

MaxAdds == 2

\* Request bodies: both signs of amount, kinds inside and outside the four,
\* categories with and without a budget; a body without a date leaves the
\* field out.
AddInputs ==
    { [amount |-> -300, category |-> "Food", kind |-> "expense"],
      [amount |-> 20, category |-> "Food", kind |-> "refund"],
      [amount |-> 20, category |-> "Gift", kind |-> "income"],
      [amount |-> 20, category |-> "Food", kind |-> "expense",
       date |-> Dt(2024, 2, 20, 7, 0, 0, 0)],
      [amount |-> -300, category |-> "Gift", kind |-> "savings",
       date |-> Dt(2024, 3, 4, 0, 0, 0, 0)] }

Init ==
    /\ db \in InitStores
    /\ tick = 1
    /\ adds = 0
    /\ lastReq = NoReq
    /\ resp = NoResp
    /\ th = <<>>

\* The request req is served with result r.
Serve(req, r) ==
    /\ db' = r.db
    /\ resp' = r.out
    /\ lastReq' = req

\* A result whose response is a JSON array, held in the field `field` of resp.
Listed(field, r) == [db |-> r.db, out |-> [f \in {field} |-> r.out]]

ReadRoot ==
    /\ Serve([op |-> "read_root", now |-> Now], read_root(db, Now))
    /\ UNCHANGED <<tick, adds, th>>

ListAccounts ==
    /\ Serve([op |-> "list_accounts", now |-> Now], Listed("documents", list_accounts(db, Now)))
    /\ UNCHANGED <<tick, adds, th>>

ListGoals ==
    /\ Serve([op |-> "list_goals", now |-> Now], Listed("documents", list_goals(db, Now)))
    /\ UNCHANGED <<tick, adds, th>>

ListDebts ==
    /\ Serve([op |-> "list_debts", now |-> Now], Listed("documents", list_debts(db, Now)))
    /\ UNCHANGED <<tick, adds, th>>

ListBudgets ==
    /\ Serve([op |-> "list_budgets", now |-> Now], Listed("documents", list_budgets(db, Now)))
    /\ UNCHANGED <<tick, adds, th>>

ListTransactions ==
    /\ \E tf \in Timeframes \cup {None} :
         Serve([op |-> "list_transactions", now |-> Now, timeframe |-> tf],
               Listed("documents", list_transactions(db, Now, tf)))
    /\ UNCHANGED <<tick, adds, th>>

AddTransaction ==
    /\ adds < MaxAdds
    /\ \E t \in AddInputs :
         Serve([op |-> "add_transaction", now |-> Now, t |-> t], add_transaction(db, Now, t))
    /\ adds' = adds + 1
    /\ UNCHANGED <<tick, th>>

Summary ==
    /\ \E tf \in Timeframes :
         Serve([op |-> "summary", now |-> Now, timeframe |-> tf], summary(db, Now, tf))
    /\ UNCHANGED <<tick, adds, th>>

GetNotifications ==
    /\ Serve([op |-> "get_notifications", now |-> Now],
             Listed("notifications", get_notifications(db, Now)))
    /\ UNCHANGED <<tick, adds, th>>

\* Time passes between two requests.
Tick ==
    /\ tick < Len(Clock)
    /\ tick' = tick + 1
    /\ UNCHANGED <<db, adds, lastReq, resp, th>>

Next ==
    \/ ReadRoot
    \/ ListAccounts
    \/ ListGoals
    \/ ListDebts
    \/ ListBudgets
    \/ ListTransactions
    \/ AddTransaction
    \/ Summary
    \/ GetNotifications
    \/ Tick

Spec == Init /\ [][Next]_vars

(***************************************************************************)
(* Properties of the requests served one after another.                    *)
(***************************************************************************)
FourKinds == {"income", "expense", "savings", "debt"}

\* The transactions of the store inside the window of the summary served last.
WindowTxs ==
    LET start == start_of_period(lastReq.now, lastReq.timeframe)
    IN  SelectSeq(db[COLL_TRANSACTION], LAMBDA doc : DateGte(doc, start))

\* The notifications get_notifications computed: the response after the
\* stored ones.
Computed ==
    SubSeq(resp.notifications, Len(db[COLL_NOTIFICATION]) + 1, Len(resp.notifications))

\* C1: in a summary, every transaction of the window is counted in exactly
\* one of the four sums income, expenses, savings, debt_payments, so the four
\* sums add up to the amounts of the window.
EachTransactionInOneSum ==
    lastReq.op = "summary" =>
        /\ \A i \in DOMAIN WindowTxs :
             Cardinality({k \in FourKinds : Counted(WindowTxs[i], k)}) = 1
        /\ resp.metrics.income + resp.metrics.expenses
             + resp.metrics.savings + resp.metrics.debt_payments
           = SumSeq(Map(WindowTxs, Amount))

\* The entries of the monthly summary's budget_usage that are near budget.
NearEntries(usage, name) ==
    {i \in DOMAIN usage :
        /\ usage[i].name = name
        /\ usage[i].budget > 0
        /\ 10 * usage[i].spent >= 9 * usage[i].budget}

BudgetAlerts(name) ==
    {i \in DOMAIN Computed : Computed[i].kind = "budget" /\ Computed[i].name = name}

\* C2: get_notifications emits one budget notification for each entry of
\* the monthly budget_usage with budget > 0 and spent >= 0.9 * budget, and
\* none for any other entry.
BudgetAlertPerNearEntry ==
    lastReq.op = "get_notifications" =>
        LET usage == summary(db, lastReq.now, "monthly").out.budget_usage
        IN  \A i \in DOMAIN usage :
                Cardinality(BudgetAlerts(usage[i].name))
                    = Cardinality(NearEntries(usage, usage[i].name))

\* The category of a month-to-date expense of the store equals name.
SpentInMonth(name) ==
    \E i \in DOMAIN db[COLL_TRANSACTION] :
        LET t == db[COLL_TRANSACTION][i]
            first == Dt(lastReq.now.year, lastReq.now.month, 1, 0, 0, 0, 0)
        IN  /\ "kind" \in DOMAIN t /\ t.kind = "expense"
            /\ "date" \in DOMAIN t /\ DtLe(first, t.date)
            /\ (IF "category" \in DOMAIN t THEN t.category ELSE "Other") = name

\* C3: for daily, weekly and monthly, budget_usage has one entry per budget
\* record of the store, in order, and an entry whose name matches no
\* month-to-date expense category has spent = 0; for yearly it is empty.
BudgetUsagePerRecord ==
    lastReq.op = "summary" =>
        LET usage   == resp.budget_usage
            budgets == db[COLL_BUDGET]
        IN  IF lastReq.timeframe \in {"daily", "weekly", "monthly"}
            THEN /\ Len(usage) = Len(budgets)
                 /\ \A i \in DOMAIN usage :
                      /\ usage[i].name = budgets[i].name
                      /\ ~SpentInMonth(usage[i].name) => usage[i].spent = 0
            ELSE usage = <<>>

\* C3 witness: a weekly summary of the seeded budgets in which one budget
\* has spending and another has none.
BudgetUsageWitness ==
    /\ lastReq.op = "summary"
    /\ lastReq.timeframe = "weekly"
    /\ db[COLL_BUDGET] = SeedBudgets
    /\ \E i, j \in DOMAIN resp.budget_usage :
         resp.budget_usage[i].spent > 0 /\ resp.budget_usage[j].spent = 0

\* The milestones 50, 75, 100 (percent of max(1, target)) a goal has crossed.
Crossed(g) ==
    LET target  == IF "target_amount" \in DOMAIN g /\ g.target_amount > 1
                   THEN g.target_amount ELSE 1
        current == IF "current_amount" \in DOMAIN g THEN g.current_amount ELSE 0
    IN  {m \in {50, 75, 100} : 100 * current >= m * target}

MilestoneLabel(m) ==
    IF m = 100 THEN "reached" ELSE IF m = 75 THEN "75% funded" ELSE "halfway"

RECURSIVE ExpectedGoalNotes(_)
\* One note per goal that crossed a milestone, for the highest one crossed.
ExpectedGoalNotes(goals) ==
    IF goals = <<>> THEN <<>>
    ELSE LET g == Head(goals)
             top == CHOOSE m \in Crossed(g) : \A n \in Crossed(g) : n <= m
         IN  (IF Crossed(g) = {} THEN <<>>
              ELSE << [kind |-> "goal", name |-> g.name, milestone |-> MilestoneLabel(top)] >>)
             \o ExpectedGoalNotes(Tail(goals))

\* C4: get_notifications emits for every goal at most one goal notification:
\* reached if pct >= 1.0, else 75% funded if pct >= 0.75, else halfway if
\* pct >= 0.5, else none.
GoalMilestonePriority ==
    lastReq.op = "get_notifications" =>
        SelectSeq(Computed, LAMBDA n : n.kind = "goal") = ExpectedGoalNotes(db[COLL_GOAL])

\* C4 witness: the goal with target 10000 and current 7600 got its 75% note
\* and no halfway note.
GoalMilestoneWitness ==
    /\ lastReq.op = "get_notifications"
    /\ \E i \in DOMAIN db[COLL_GOAL] :
         /\ db[COLL_GOAL][i].target_amount = 10000
         /\ db[COLL_GOAL][i].current_amount = 7600
    /\ \E i \in DOMAIN Computed :
         Computed[i] = [kind |-> "goal", name |-> "House", milestone |-> "75% funded"]
    /\ ~\E i \in DOMAIN Computed :
         Computed[i] = [kind |-> "goal", name |-> "House", milestone |-> "halfway"]

\* C5: a request leaves a collection that was not empty before it as it
\* was, but for the one document add_transaction appends: demo documents go
\* only into a collection the request found empty, so never twice.
SeedOnlyWhenEmpty ==
    [][\A c \in Colls :
          db[c] # <<>> =>
             IF c = COLL_TRANSACTION /\ adds' # adds
             THEN /\ Len(db'[c]) = Len(db[c]) + 1
                  /\ SubSeq(db'[c], 1, Len(db[c])) = db[c]
             ELSE db'[c] = db[c]]_vars

\* C5 witness: the transactions seeded by the first request, one added
\* transaction, and a later request served after the clock moved on.
SeedOnlyWhenEmptyWitness ==
    /\ tick = 3
    /\ lastReq.op = "list_budgets"
    /\ lastReq.now = Clock[3]
    /\ Len(db[COLL_TRANSACTION]) = Len(SeedTransactions(Clock[1])) + 1
    /\ SubSeq(db[COLL_TRANSACTION], 1, 7) = SeedTransactions(Clock[1])
    /\ db[COLL_ACCOUNT] = SeedAccounts

\* C7: every stored transaction has amount >= 0, and the transaction
\* add_transaction stored has the absolute value of the amount supplied.
StoredAmountIsAbsolute ==
    /\ \A i \in DOMAIN db[COLL_TRANSACTION] : db[COLL_TRANSACTION][i].amount >= 0
    /\ lastReq.op = "add_transaction" =>
         LET stored   == db[COLL_TRANSACTION][Len(db[COLL_TRANSACTION])].amount
             supplied == lastReq.t.amount
         IN  (supplied >= 0 => stored = supplied) /\ (supplied < 0 => stored = -supplied)

\* C7 witness: the second add_transaction, with a negative amount.
StoredAmountWitness ==
    /\ lastReq.op = "add_transaction"
    /\ lastReq.t.amount < 0
    /\ adds = 2

RECURSIVE FieldSum(_, _)
\* The sum of a field over documents; a document without it counts 0.
FieldSum(docs, field) ==
    IF docs = <<>> THEN 0
    ELSE (IF field \in DOMAIN Head(docs) THEN Head(docs)[field] ELSE 0)
         + FieldSum(Tail(docs), field)

AccountsOfType(type) ==
    SelectSeq(db[COLL_ACCOUNT], LAMBDA a : "type" \in DOMAIN a /\ a.type = type)

\* C9: net_worth = cash_on_hand + the goals' current amounts - total_debt,
\* cash_on_hand from the checking, savings and cash accounts only, total_debt
\* from all debts, whatever the timeframe.
NetWorthIdentity ==
    lastReq.op = "summary" =>
        LET cash == FieldSum(AccountsOfType("checking"), "starting_balance")
                    + FieldSum(AccountsOfType("savings"), "starting_balance")
                    + FieldSum(AccountsOfType("cash"), "starting_balance")
            debt == FieldSum(db[COLL_DEBT], "balance")
        IN  /\ resp.metrics.cash_on_hand = cash
            /\ resp.metrics.total_debt = debt
            /\ resp.metrics.net_worth
                 = cash + FieldSum(db[COLL_GOAL], "current_amount") - debt

\* C9 witness: a daily summary over a store with an investment account and
\* a cash account.
NetWorthWitness ==
    /\ lastReq.op = "summary"
    /\ lastReq.timeframe = "daily"
    /\ AccountsOfType("investment") # <<>>
    /\ AccountsOfType("cash") # <<>>
    /\ resp.metrics.net_worth # 0

(***************************************************************************)
(* Requests served concurrently.  The endpoints are plain `def` functions, *)
(* which the framework runs on worker threads; two threads interleave at   *)
(* their store calls.  Each handler is unfolded into the sequence of its   *)
(* store calls; a thread takes one store call per step.  The count test of *)
(* a seeding block and the inserts it guards are separate steps.  The      *)
(* inserts of one block are taken as one step: taken one by one, another   *)
(* thread's count between them is non-zero as it is after the last, the    *)
(* documents of two blocks may end up interleaved in the collection, and a *)
(* query may see part of a block; these add behaviours, none is removed.   *)
(* The clock stands still while the requests run.                          *)
(***************************************************************************)
Threads == {1, 2}

CountI(coll) == [k |-> "count", coll |-> coll]

SeedI(coll) == [k |-> "seed", coll |-> coll]

FetchI(coll, into, filter) == [k |-> "get", coll |-> coll, into |-> into, filter |-> filter]

InsertI == [k |-> "insert"]

ReturnI == [k |-> "return"]

\* The store calls of ensure_seed_data, in program order.
ensure_seed_data_calls ==
    << CountI(COLL_ACCOUNT), SeedI(COLL_ACCOUNT),
       CountI(COLL_GOAL), SeedI(COLL_GOAL),
       CountI(COLL_DEBT), SeedI(COLL_DEBT),
       CountI(COLL_TRANSACTION), SeedI(COLL_TRANSACTION) >>

read_root_calls == ensure_seed_data_calls

list_accounts_calls ==
    ensure_seed_data_calls \o << FetchI(COLL_ACCOUNT, "accounts", "all") >>

list_goals_calls ==
    ensure_seed_data_calls \o << FetchI(COLL_GOAL, "goals", "all") >>

list_debts_calls ==
    ensure_seed_data_calls \o << FetchI(COLL_DEBT, "debts", "all") >>

list_budgets_calls ==
    ensure_seed_data_calls
    \o << CountI(COLL_BUDGET), SeedI(COLL_BUDGET), FetchI(COLL_BUDGET, "budgets", "all") >>

add_transaction_calls == ensure_seed_data_calls \o << InsertI >>

\* summary with timeframe monthly, weekly or daily (the second transaction
\* query runs).
summary_calls ==
    ensure_seed_data_calls
    \o << FetchI(COLL_TRANSACTION, "txs", "window") >>
    \o list_budgets_calls
    \o << FetchI(COLL_TRANSACTION, "month_expenses", "month_expense") >>
    \o list_goals_calls
    \o list_debts_calls
    \o list_accounts_calls

\* The store calls of the handler of req, then its return.
Calls(req) ==
    (CASE req.op = "read_root" -> read_root_calls
       [] req.op = "list_budgets" -> list_budgets_calls
       [] req.op = "add_transaction" -> add_transaction_calls
       [] req.op = "summary" -> summary_calls
       [] OTHER -> <<>>)
    \o << ReturnI >>

\* The demo documents of a collection.
SeedDocs(coll, now) ==
    CASE coll = COLL_ACCOUNT -> SeedAccounts
      [] coll = COLL_GOAL -> SeedGoals
      [] coll = COLL_DEBT -> SeedDebts
      [] coll = COLL_TRANSACTION -> SeedTransactions(now)
      [] coll = COLL_BUDGET -> SeedBudgets
      [] OTHER -> <<>>

\* InsertSeed testing the count again in the step that inserts.
InsertSeedIfStillEmpty(d, coll, now) ==
    IF count_documents(d, coll) = 0 THEN create_documents(d, coll, SeedDocs(coll, now)) ELSE d

\* The body of a seeding block: the create_document calls behind the test
\* count_documents({}) == 0, which the thread passed earlier.
InsertSeed(d, coll, now) == create_documents(d, coll, SeedDocs(coll, now))

\* The result of a query of the handler of req.
Fetch(d, instr, req, now) ==
    CASE instr.filter = "window" ->
            With(start_of_period(now, req.timeframe), LAMBDA start :
                get_documents(d, instr.coll, Since(start)))
      [] instr.filter = "month_expense" ->
            With(start_of_period(now, "monthly"), LAMBDA month_start :
                get_documents(d, instr.coll, SinceOfKind(month_start, "expense")))
      [] OTHER -> get_documents(d, instr.coll, All)

NoLocals ==
    [txs |-> <<>>, budgets |-> <<>>, month_expenses |-> <<>>,
     goals |-> <<>>, debts |-> <<>>, accounts |-> <<>>]

\* A thread: its request, the index of its next store call, whether the
\* count it read last was zero, the collections it seeded, its local
\* variables and its response.
IdleThread ==
    [req |-> NoReq, pc |-> 0, zero |-> FALSE, seeded |-> {}, loc |-> NoLocals, out |-> NoResp]

\* The requests the two threads serve.
ConcRequests ==
    { [op |-> "read_root"],
      [op |-> "list_budgets"],
      [op |-> "summary", timeframe |-> "monthly"],
      [op |-> "add_transaction", t |-> [amount |-> -300, category |-> "Food", kind |-> "expense"]],
      [op |-> "add_transaction", t |-> [amount |-> 20, category |-> "Gift", kind |-> "income"]] }

InitConc ==
    /\ db = EmptyStore
    /\ tick = 1
    /\ adds = 0
    /\ lastReq = NoReq
    /\ resp = NoResp
    /\ th = [p \in Threads |-> IdleThread]

Running(p) == th[p].pc \in 1..Len(Calls(th[p].req))

Done(p) == th[p].pc > Len(Calls(th[p].req))

Instr(p) == Calls(th[p].req)[th[p].pc]

\* A request arrives and a worker thread takes it.
Start ==
    /\ \E p \in Threads :
         /\ th[p].pc = 0
         /\ \E req \in ConcRequests :
              th' = [th EXCEPT ![p] = [@ EXCEPT !.req = req, !.pc = 1]]
    /\ UNCHANGED <<db, tick, adds, lastReq, resp>>

\* if db[coll].count_documents({}) == 0: a count other than zero skips the
\* block.
CountStep ==
    /\ \E p \in Threads :
         /\ Running(p)
         /\ Instr(p).k = "count"
         /\ LET zero == count_documents(db, Instr(p).coll) = 0
            IN  th' = [th EXCEPT ![p] = [@ EXCEPT !.zero = zero,
                                                  !.pc = IF zero THEN @ + 1 ELSE @ + 2]]
    /\ UNCHANGED <<db, tick, adds, lastReq, resp>>

SeedStep ==
    /\ \E p \in Threads :
         /\ Running(p)
         /\ Instr(p).k = "seed"
         /\ th[p].zero
         /\ db' = InsertSeed(db, Instr(p).coll, Now)
         /\ th' = [th EXCEPT ![p] = [@ EXCEPT !.seeded = @ \cup {Instr(p).coll},
                                              !.zero = FALSE,
                                              !.pc = @ + 1]]
    /\ UNCHANGED <<tick, adds, lastReq, resp>>

FetchStep ==
    /\ \E p \in Threads :
         /\ Running(p)
         /\ Instr(p).k = "get"
         /\ th' = [th EXCEPT ![p] =
                     [@ EXCEPT !.loc = [@ EXCEPT ![Instr(p).into] =
                                           Fetch(db, Instr(p), th[p].req, Now)],
                               !.pc = @ + 1]]
    /\ UNCHANGED <<db, tick, adds, lastReq, resp>>

InsertStep ==
    /\ \E p \in Threads :
         /\ Running(p)
         /\ Instr(p).k = "insert"
         /\ db' = create_document(db, COLL_TRANSACTION, Payload(th[p].req.t, Now))
         /\ th' = [th EXCEPT ![p] =
                     [@ EXCEPT !.out = [inserted_id |-> Len(db'[COLL_TRANSACTION])],
                               !.pc = @ + 1]]
    /\ UNCHANGED <<tick, adds, lastReq, resp>>

\* The response of the handler of req, from its local variables.
Response(req, loc, out) ==
    CASE req.op = "read_root" -> [message |-> "Personal Finance Backend Running"]
      [] req.op = "list_budgets" -> [documents |-> loc.budgets]
      [] req.op = "summary" ->
            Report(req.timeframe, loc.txs, loc.budgets, loc.month_expenses,
                   loc.goals, loc.debts, loc.accounts)
      [] OTHER -> out

ReturnStep ==
    /\ \E p \in Threads :
         /\ Running(p)
         /\ Instr(p).k = "return"
         /\ th' = [th EXCEPT ![p] =
                     [@ EXCEPT !.out = Response(th[p].req, th[p].loc, th[p].out),
                               !.pc = @ + 1]]
    /\ UNCHANGED <<db, tick, adds, lastReq, resp>>

NextConc ==
    \/ Start
    \/ CountStep
    \/ SeedStep
    \/ FetchStep
    \/ InsertStep
    \/ ReturnStep

SpecConc == InitConc /\ [][NextConc]_vars

(***************************************************************************)
(* Properties of the requests served concurrently.                         *)
(***************************************************************************)
\* The documents of docs that are among the documents of seed.
Among(docs, seed) ==
    LET wanted == {seed[i] : i \in DOMAIN seed}
    IN  SelectSeq(docs, LAMBDA doc : doc \in wanted)

\* C6: when both threads passed the test count == 0 of a collection and
\* ran the block behind it, the collection holds two copies of the demo
\* documents.
DoubleSeed ==
    \A coll \in Colls :
        (\A p \in Threads : coll \in th[p].seeded) =>
            LET seed == SeedDocs(coll, Now)
            IN  Among(db[coll], seed) = seed \o seed

\* C6 witness: two list_budgets requests both seeded the budgets, and the
\* second of them returns the ten documents.
DoubleSeedWitness ==
    /\ \A p \in Threads :
         /\ th[p].req.op = "list_budgets"
         /\ COLL_BUDGET \in th[p].seeded
    /\ db[COLL_BUDGET] = SeedBudgets \o SeedBudgets
    /\ \E p \in Threads : Done(p) /\ th[p].out.documents = SeedBudgets \o SeedBudgets

RECURSIVE SumValues(_, _)
\* The sum of the values of the map f over the keys in keys.
SumValues(f, keys) ==
    IF keys = {} THEN 0
    ELSE LET key == CHOOSE x \in keys : TRUE
         IN  f[key] + SumValues(f, keys \ {key})

\* C10: in every report a monthly summary returns, each budget_usage entry
\* has spent = expense_categories[name] (0 when absent) and the values of
\* expense_categories sum to metrics.expenses, whatever add_transaction
\* requests run meanwhile.
SummaryOfOneSnapshot ==
    \A p \in Threads :
        (Done(p) /\ th[p].req.op = "summary") =>
            LET report == th[p].out
            IN  /\ \A i \in DOMAIN report.budget_usage :
                      report.budget_usage[i].spent
                        = Get(report.expense_categories, report.budget_usage[i].name, 0)
                /\ SumValues(report.expense_categories, DOMAIN report.expense_categories)
                     = report.metrics.expenses

====
